---- MODULE Spec2Model ----
(***************************************************************************)
(* Verification model of zk-rsa-verifier.py: the circom constraint system  *)
(* that ZKRSAVerifier.create_circuits writes (templates ModulusCheck,      *)
(* IsZero, SimplePrimalityTest, RSASetupVerifier, the comparators and the  *)
(* bit decomposition) and the Python orchestration around it               *)
(* (generate_proof, verify_proof, compile_circuits, trusted_setup,         *)
(* _is_prime, find_16bit_primes).                                          *)
(*                                                                         *)
(* Signals are elements of circom's prime field.  A field element is       *)
(* written here as the reduced fraction <<num, den>> it is the image of:   *)
(* on fractions whose numerators and denominators stay far below the       *)
(* square root of the field prime (about 2^126) the field operations       *)
(* + - * / agree with rational arithmetic and distinct fractions are       *)
(* distinct field elements.  Every value of the model is below 2^31.       *)
(* The product p * q does not fit the checker's integers, so it is kept    *)
(* as a two-limb number <<hi, lo>> = hi * 2^16 + lo.                       *)
(***************************************************************************)
EXTENDS Integers, Sequences, FiniteSets, TLC

VARIABLES
    bit_length,   \* self.bit_length of the verifier under study
    p, q,         \* the private inputs of the request / circuit
    adv,          \* which free (<--) signals the prover assigns off-hint
    circ,         \* outcome of evaluating the constraint system
    cwd,          \* process working directory: "root" or "build"
    build,        \* files of build/: name -> content, NoFile if absent
    proofs,       \* number of files saved under proofs/
    last,         \* record of the last orchestration call and its outcome
    primes, fp_n, count, pc   \* locals of find_16bit_primes (n is fp_n) and its position

vars == <<bit_length, p, q, adv, circ, cwd, build, proofs, last,
          primes, fp_n, count, pc>>

----------------------------------------------------------------------------
(* Integer helpers *)

Abs(x) == IF x < 0 THEN -x ELSE x

RECURSIVE GCD(_, _)
GCD(a, b) == IF b = 0 THEN a ELSE GCD(b, a % b)

RECURSIVE Pow2(_)
Pow2(k) == IF k = 0 THEN 1 ELSE 2 * Pow2(k - 1)

----------------------------------------------------------------------------
(* Field elements as reduced fractions *)

Frac(num, den) ==
    IF den = 1 THEN <<num, 1>>
    ELSE LET s == IF den < 0 THEN -1 ELSE 1
             g == GCD(Abs(num), Abs(den))
         IN  <<(s * num) \div g, (s * den) \div g>>

F(k) == <<k, 1>>
FZero == <<0, 1>>
FOne == <<1, 1>>

FAdd(x, y) == Frac(x[1] * y[2] + y[1] * x[2], x[2] * y[2])
FNeg(x) == <<-x[1], x[2]>>
FSub(x, y) == FAdd(x, FNeg(y))
FMul(x, y) == Frac(x[1] * y[1], x[2] * y[2])
\* 1/x of the hint "in != 0 ? 1/in : 0"; x is not zero
FInv(x) == Frac(x[2], x[1])

----------------------------------------------------------------------------
(* Two-limb integers for p * q: <<hi, lo>> stands for hi * 2^16 + lo with  *)
(* 0 <= lo < 2^16; hi is negative for a negative number.                   *)

Limb == 2^16

\* a * b for 0 <= a, b < 2^20, by splitting b at 2^10 and a * (b div 2^10)
\* at 2^6 so that no intermediate product reaches 2^31
WMulNat(a, b) ==
    LET b1 == b \div 1024
        b0 == b % 1024
        A  == a * b1
        B  == a * b0
        low == (A % 64) * 1024 + B
    IN  <<(A \div 64) + (low \div Limb), low % Limb>>

WNeg(w) == IF w[2] = 0 THEN <<-w[1], 0>> ELSE <<-w[1] - 1, Limb - w[2]>>

\* n <== p + q instead of p * q
WMul_Sum(a, b) == <<(a + b) \div Limb, (a + b) % Limb>>

WMul(a, b) ==
    LET m == WMulNat(Abs(a), Abs(b))
    IN  IF (a < 0) = (b < 0) THEN m ELSE WNeg(m)

WAdd(w, k) ==
    LET s == w[2] + k
    IN  <<w[1] + (s \div Limb), s % Limb>>

----------------------------------------------------------------------------
(* The circuit templates.  A template is an operator from its input        *)
(* signals and its free signals (those assigned with <--) to its output    *)
(* signals and "sat", the conjunction of its constraints.  The operator    *)
(* named ...Hint is the template's own witness computation.                *)

\* out <== in * inv + 1, the sign of the product lost
IsZero_SignLost(in, inv) ==
    LET out == FAdd(FMul(in, inv), FOne)
    IN  [out |-> out, sat |-> FMul(in, out) = FZero]

\* template IsZero: out <== -in * inv + 1;  in * out === 0
IsZero(in, inv) ==
    LET out == FAdd(FMul(FNeg(in), inv), FOne)
    IN  [out |-> out, sat |-> FMul(in, out) = FZero]

\* inv <-- in != 0 ? 1/in : 0
IsZeroHint(in) == IF in # FZero THEN FInv(in) ELSE FZero

\* template IsEqual: isz.in <== in[0] - in[1]
IsEqual(in0, in1, inv) == IsZero(FSub(in0, in1), inv)

IsEqualHint(in0, in1) == IsZeroHint(FSub(in0, in1))

\* template Bits2Num(n): var lc = 0; var e2 = 1;
\*   for i < n: lc += in[i] * e2; e2 = e2 * 2;   out <== lc
\* lc is the sum of in[i] * 2^i over i in lo..hi; the sum is split at the
\* middle of the index range to keep the evaluation shallow.
RECURSIVE Bits2NumSum(_, _, _)
Bits2NumSum(in, lo, hi) ==
    IF lo = hi THEN FMul(in[lo + 1], F(Pow2(lo)))
    ELSE LET mid == (lo + hi) \div 2
         IN  FAdd(Bits2NumSum(in, lo, mid), Bits2NumSum(in, mid + 1, hi))

Bits2Num(nb, in) == Bits2NumSum(in, 0, nb - 1)

\* the constraints out[i] * (out[i] - 1) === 0 left out
Num2Bits_NoBoolean(nb, in, out) ==
    [out |-> out, sat |-> Bits2Num(nb, out) = in]

\* template Num2Bits(n): out[i] * (out[i] - 1) === 0;  n2b.out === in
\* (signal out[i] of the template is out[i + 1] of the sequence)
Num2Bits(nb, in, out) ==
    [out |-> out,
     sat |-> /\ \A i \in 1..nb : FMul(out[i], FSub(out[i], FOne)) = FZero
             /\ Bits2Num(nb, out) = in]

\* The low 28 bits of the field prime r of circom's default curve (bn128)
\* are 0..01, so the integer that stands for the field element -k,
\* 0 < k < 2^28, has the low 28 bits of 2^28 + 1 - k.
FieldLow == Pow2(28) + 1

\* out[i] <-- (in >> i) & 1, on the representative of in in [0, r)
Num2BitsHint(nb, in) ==
    LET v == IF in[1] >= 0 THEN in[1] ELSE FieldLow + in[1]
    IN  [i \in 1..nb |-> F((v \div Pow2(i - 1)) % 2)]

\* template LessThan(n): n2b.in <== in[0] + (1 << n) - in[1];
\*                       out <== 1 - n2b.out[n]
LessThanIn(nb, in0, in1) == FSub(FAdd(in0, F(Pow2(nb))), in1)

LessThan(nb, in0, in1, bits) ==
    LET n2b == Num2Bits(nb + 1, LessThanIn(nb, in0, in1), bits)
    IN  [out |-> FSub(FOne, n2b.out[nb + 1]), sat |-> n2b.sat]

\* template GreaterEqThan(n): lt.in[0] <== in[0]; lt.in[1] <== in[1]
GreaterEqThanIn(nb, in0, in1) == LessThanIn(nb, in0, in1)

GreaterEqThan(nb, in0, in1, bits) ==
    LET lt == LessThan(nb, in0, in1, bits)
    IN  [out |-> FSub(FOne, lt.out), sat |-> lt.sat]

\* template LessEqThan(n): lt.in[0] <== in[1]; lt.in[1] <== in[0]
LessEqThanIn(nb, in0, in1) == LessThanIn(nb, in1, in0)

\* the inputs of lt not swapped
LessEqThan_NoSwap(nb, in0, in1, bits) ==
    LET lt == LessThan(nb, in0, in1, bits)
    IN  [out |-> FSub(FOne, lt.out), sat |-> lt.sat]

LessEqThan(nb, in0, in1, bits) ==
    LET lt == LessThan(nb, in1, in0, bits)
    IN  [out |-> FSub(FOne, lt.out), sat |-> lt.sat]

\* template ModulusCheck: value === quotient * modulus + remainder;
\*   isZero.in <== remainder;  isNotDivisible <== 1 - isZero.out
ModulusCheck(value, modulus, quotient, remainder, inv) ==
    LET isZero == IsZero(remainder, inv)
    IN  [isNotDivisible |-> FSub(FOne, isZero.out),
         sat |-> /\ value = FAdd(FMul(quotient, modulus), remainder)
                 /\ isZero.sat]

\* quotient <-- value \ modulus;  remainder <-- value % modulus
\* (integer division of the representatives; value is a natural number)
ModulusCheckHint(value, modulus) ==
    LET remainder == F(value[1] % modulus[1])
    IN  [quotient |-> F(value[1] \div modulus[1]),
         remainder |-> remainder,
         inv |-> IsZeroHint(remainder)]

\* var primes[54] of SimplePrimalityTest
primesTable ==
    <<2, 3, 5, 7, 11, 13, 17, 19, 23, 29, 31, 37, 41, 43, 47, 53, 59, 61,
      67, 71, 73, 79, 83, 89, 97, 101, 103, 107, 109, 113, 127, 131, 137,
      139, 149, 151, 157, 163, 167, 173, 179, 181, 191, 193, 197, 199, 211,
      223, 227, 229, 233, 239, 241, 251>>

NumChecks == 54

\* accumulated[0] <== checks[0];
\* accumulated[i] <== accumulated[i-1] * checks[i];  isPrime <== accumulated[53]
\* accumulated[hi-1] is the product of checks[lo..hi] for lo = 1; the
\* product is split at the middle of the index range (the field's
\* multiplication is associative) to keep the evaluation shallow.
RECURSIVE Accumulate(_, _, _)
Accumulate(checks, lo, hi) ==
    IF lo = hi THEN checks[lo]
    ELSE LET mid == (lo + hi) \div 2
         IN  FMul(Accumulate(checks, lo, mid), Accumulate(checks, mid + 1, hi))

\* template SimplePrimalityTest; w[i] holds the free signals (quotient,
\* remainder, inv) of modChecks[i-1]
SimplePrimalityTest(nn, w) ==
    LET modChecks == [i \in 1..NumChecks |->
                        ModulusCheck(nn, F(primesTable[i]), w[i].quotient,
                                     w[i].remainder, w[i].inv)]
        checks == [i \in 1..NumChecks |-> modChecks[i].isNotDivisible]
    IN  [isPrime |-> Accumulate(checks, 1, NumChecks),
         sat |-> \A i \in 1..NumChecks : modChecks[i].sat]

SimplePrimalityTestHint(nn) ==
    [i \in 1..NumChecks |-> ModulusCheckHint(nn, F(primesTable[i]))]

\* the n of the comparator instances GreaterEqThan(16), LessEqThan(16)
CmpBits == 16

\* template RSASetupVerifier as create_circuits writes it for a verifier
\* with the given min_value and max_value.  w holds the free signals: the
\* bits of the four comparators, the inv of eq and of every ModulusCheck,
\* the quotients and remainders, and the output n (a two-limb integer).
RSASetupVerifier(min_value, max_value, pp, qq, w) ==
    LET geP == GreaterEqThan(CmpBits, pp, F(min_value), w.geP)
        leP == LessEqThan(CmpBits, pp, F(max_value), w.leP)
        validP == FMul(geP.out, leP.out)
        geQ == GreaterEqThan(CmpBits, qq, F(min_value), w.geQ)
        leQ == LessEqThan(CmpBits, qq, F(max_value), w.leQ)
        validQ == FMul(geQ.out, leQ.out)
        eq == IsEqual(pp, qq, w.eq)
        different == FSub(FOne, eq.out)
        primeP == SimplePrimalityTest(pp, w.primeP)
        primeQ == SimplePrimalityTest(qq, w.primeQ)
        valid == FMul(FMul(FMul(FMul(validP, validQ), different),
                           primeP.isPrime), primeQ.isPrime)
    IN  [n |-> w.n,
         validP |-> validP, validQ |-> validQ, different |-> different,
         primeP |-> primeP.isPrime, primeQ |-> primeQ.isPrime,
         valid |-> valid,
         sat |-> /\ w.n = WMul(pp[1], qq[1])
                 /\ geP.sat /\ leP.sat /\ geQ.sat /\ leQ.sat
                 /\ eq.sat /\ primeP.sat /\ primeQ.sat
                 /\ valid = FOne]

\* the witness the generated witness calculator computes for (p, q)
RSASetupVerifierHint(min_value, max_value, pp, qq) ==
    [n |-> WMul(pp[1], qq[1]),
     geP |-> Num2BitsHint(CmpBits + 1,
                          GreaterEqThanIn(CmpBits, pp, F(min_value))),
     leP |-> Num2BitsHint(CmpBits + 1,
                          LessEqThanIn(CmpBits, pp, F(max_value))),
     geQ |-> Num2BitsHint(CmpBits + 1,
                          GreaterEqThanIn(CmpBits, qq, F(min_value))),
     leQ |-> Num2BitsHint(CmpBits + 1,
                          LessEqThanIn(CmpBits, qq, F(max_value))),
     eq |-> IsEqualHint(pp, qq),
     primeP |-> SimplePrimalityTestHint(pp),
     primeQ |-> SimplePrimalityTestHint(qq)]

----------------------------------------------------------------------------
(* ZKRSAVerifier: construction and input validation *)

\* bit_length=16, the default of __init__ and the value run_demo passes
DefaultBitLength == 16

\* self.min_value = 2**(bit_length - 1); self.max_value = 2**bit_length - 1
MinValue(bl) == Pow2(bl - 1)
MaxValue(bl) == Pow2(bl) - 1

\* int(n**0.5) for 0 <= n < 2^20: the largest r with r * r <= n, found
\* bit by bit from 2^9 down
RECURSIVE ISqrtFrom(_, _, _)
ISqrtFrom(x, r, b) ==
    IF b = 0 THEN r
    ELSE ISqrtFrom(x, IF (r + b) * (r + b) <= x THEN r + b ELSE r, b \div 2)

ISqrt(x) == ISqrtFrom(x, 0, 512)

\* for i in range(3, int(n**0.5) + 1, 2): if n % i == 0: return False
\* return True
IsPrimeLoop(x, start, stop) ==
    \A k \in 0..((stop - start - 1) \div 2) :
        start + 2 * k >= stop \/ x % (start + 2 * k) # 0

\* ZKRSAVerifier._is_prime
IsPrimePy(x) ==
    IF x < 2 THEN FALSE
    ELSE IF x = 2 THEN TRUE
    ELSE IF x % 2 = 0 THEN FALSE
    ELSE IsPrimeLoop(x, 3, ISqrt(x) + 1)

\* the range check of q forgotten
Validate_NoRangeQ(bl, pp, qq) ==
    IF ~IsPrimePy(pp) \/ ~IsPrimePy(qq) THEN "Both p and q must be prime"
    ELSE IF pp = qq THEN "p and q must be different"
    ELSE IF ~(MinValue(bl) <= pp /\ pp <= MaxValue(bl))
         THEN "p must be a bit_length-bit number"
    ELSE "ok"

\* the "Validate inputs" block of generate_proof: the message of the
\* ValueError it raises, or "ok"
Validate(bl, pp, qq) ==
    IF ~IsPrimePy(pp) \/ ~IsPrimePy(qq) THEN "Both p and q must be prime"
    ELSE IF pp = qq THEN "p and q must be different"
    ELSE IF ~(MinValue(bl) <= pp /\ pp <= MaxValue(bl))
         THEN "p must be a bit_length-bit number"
    ELSE IF ~(MinValue(bl) <= qq /\ qq <= MaxValue(bl))
         THEN "q must be a bit_length-bit number"
    ELSE "ok"

----------------------------------------------------------------------------
(* Bounds of the model *)

\* largest bit_length a verifier is constructed with
MaxBitLength == 18
\* inputs are taken within Span of min_value and of max_value
Span == 14

BitLengths == DefaultBitLength..MaxBitLength

InputValues(bl) ==
    (MinValue(bl) - 1)..(MinValue(bl) + Span)
        \cup (MaxValue(bl) - Span)..(MaxValue(bl) + 1)

----------------------------------------------------------------------------
(* Values of the variables a specification does not use *)

\* an absent file; a file's content is a non-empty tuple
NoFile == <<>>
NoCirc == [done |-> FALSE, kind |-> "none"]
NoAdv == [c \in {"n", "geP", "leP", "geQ", "leQ", "eq", "primeP", "primeQ"}
            |-> "hint"]
NoLast == [op |-> "none"]
BuildFiles == {"input.json", "witness.wtns", "proof.json", "public.json",
               "proof_to_verify.json", "public_to_verify.json"}
NoBuild == [f \in BuildFiles |-> NoFile]

IdleCircuit == bit_length = DefaultBitLength /\ p = 0 /\ q = 0
                 /\ adv = NoAdv /\ circ = NoCirc
IdleOrch == cwd = "root" /\ build = NoBuild /\ proofs = 0 /\ last = NoLast
IdleFind == primes = <<>> /\ fp_n = 0 /\ count = 0 /\ pc = "idle"

circuitVars == <<bit_length, p, q, adv, circ>>
orchVars == <<cwd, build, proofs, last>>
findVars == <<primes, fp_n, count, pc>>

----------------------------------------------------------------------------
(* The circuit under its own witness computation: the generated witness    *)
(* calculator assigns every signal from (p, q) and checks every            *)
(* constraint.                                                             *)

Evaluate(bl, pp, qq, w) ==
    LET r == RSASetupVerifier(MinValue(bl), MaxValue(bl), F(pp), F(qq), w)
    IN  [done |-> TRUE, kind |-> "circuit",
         sat |-> r.sat, n |-> r.n, valid |-> r.valid,
         validP |-> r.validP, validQ |-> r.validQ,
         different |-> r.different, primeP |-> r.primeP, primeQ |-> r.primeQ]

ComputeWitness ==
    /\ ~circ.done
    /\ circ' = Evaluate(bit_length, p, q,
                        RSASetupVerifierHint(MinValue(bit_length),
                                             MaxValue(bit_length), F(p), F(q)))
    /\ UNCHANGED <<bit_length, p, q, adv>>
    /\ UNCHANGED orchVars
    /\ UNCHANGED findVars

InitCircuit ==
    /\ bit_length \in BitLengths
    /\ p \in InputValues(bit_length)
    /\ q \in InputValues(bit_length)
    /\ adv = NoAdv
    /\ circ = NoCirc
    /\ IdleOrch
    /\ IdleFind

NextCircuit == ComputeWitness

SpecCircuit == InitCircuit /\ [][NextCircuit]_vars

----------------------------------------------------------------------------
(* Properties of the circuit under its own witness computation *)

\* x is a prime number (x < 2^20: a composite x has a divisor below 1024)
Prime(x) == x >= 2 /\ \A d \in 2..1023 : d >= x \/ x % d # 0

\* the two-limb number w is the integer k
WIs(w, k) == w = <<k \div Limb, k % Limb>>

\* w mod m for a natural two-limb number w and m < 2^15
WMod(w, m) == ((w[1] % m) * (Limb % m) + w[2]) % m

\* the two-limb number w is the integer product a * b of naturals below
\* 2^20: 0 <= w < 2^45 and w = a * b modulo three primes whose product
\* exceeds 2^44
ProductIs(w, a, b) ==
    /\ w[1] >= 0 /\ w[1] < Pow2(28)
    /\ w[2] >= 0 /\ w[2] < Limb
    /\ \A m \in {32749, 32719, 32717} : WMod(w, m) = ((a % m) * (b % m)) % m

InRange16(x) == 32768 <= x /\ x <= 65535

\* C1: completeness of the RSA-Setup circuit. For all primes p # q in
\* [2^15, 2^16 - 1], the witness the circuit's hint assignments compute
\* satisfies every constraint of RSASetupVerifier (valid === 1 included)
\* and the public output n is p * q.
C1_Completeness ==
    (/\ circ.kind = "circuit"
     /\ bit_length = DefaultBitLength
     /\ InRange16(p) /\ InRange16(q)
     /\ Prime(p) /\ Prime(q) /\ p # q)
    => (circ.sat /\ circ.valid = FOne /\ ProductIs(circ.n, p, q))

C1_Witness ==
    /\ circ.kind = "circuit"
    /\ bit_length = DefaultBitLength
    /\ p = 65521 /\ q = 32771
    /\ Prime(p) /\ Prime(q)
    /\ circ.sat

\* C5 (as claimed): the pre-checks mirror the circuit. For every
\* bit_length and every (p, q) that passes the input validation of
\* generate_proof, the circuit generated for that bit_length is satisfied
\* by the witness computed for (p, q).
C5_PrechecksMirrorCircuit ==
    (circ.kind = "circuit" /\ Validate(bit_length, p, q) = "ok") => circ.sat

\* C7 (as claimed): for p = 32771, q = 32779 the circuit is satisfiable and
\* its public output is n = 1074004409.
C7_Original ==
    (circ.kind = "circuit" /\ bit_length = DefaultBitLength
        /\ p = 32771 /\ q = 32779)
    => (circ.sat /\ WIs(circ.n, 1074004409))

\* C7 (amended): for p = 32771, q = 32779 the circuit is satisfiable and
\* its public output, constrained by n <== p * q, is n = 1074200609.
C7_Scenario ==
    (circ.kind = "circuit" /\ bit_length = DefaultBitLength
        /\ p = 32771 /\ q = 32779)
    => (circ.sat /\ WIs(circ.n, 1074200609))

C7_Witness ==
    /\ circ.kind = "circuit" /\ bit_length = DefaultBitLength
    /\ p = 32771 /\ q = 32779
    /\ circ.valid = FOne

----------------------------------------------------------------------------
(* The primality gadget on its own: SimplePrimalityTest under its witness  *)
(* computation, and one ModulusCheck instance whose free signals           *)
(* (quotient, remainder, inv) the prover assigns as it likes.              *)

\* candidates n of the primality gadget are 0..MaxCandidate
MaxCandidate == 300

\* assignments of the free signals of ModulusCheck(value, modulus):
\*   "hint"   the template's own quotient, remainder, inv
\*   "shift"  quotient - 1, remainder + modulus, inv = 1/(remainder + modulus)
\*   "noinv"  the hint's quotient and remainder, inv = 0
\*   "off"    the hint's quotient, remainder + 1, inv = 1/(remainder + 1)
ModStrategies == {"hint", "shift", "noinv", "off"}

ModulusAssign(strategy, value, modulus) ==
    LET h == ModulusCheckHint(value, modulus)
    IN  CASE strategy = "hint" -> h
          [] strategy = "shift" ->
                [quotient |-> FSub(h.quotient, FOne),
                 remainder |-> FAdd(h.remainder, modulus),
                 inv |-> IsZeroHint(FAdd(h.remainder, modulus))]
          [] strategy = "noinv" -> [h EXCEPT !.inv = FZero]
          [] strategy = "off" ->
                [quotient |-> h.quotient,
                 remainder |-> FAdd(h.remainder, FOne),
                 inv |-> IsZeroHint(FAdd(h.remainder, FOne))]

TestPrimality ==
    /\ ~circ.done
    /\ LET r == SimplePrimalityTest(F(p), SimplePrimalityTestHint(F(p)))
       IN  circ' = [done |-> TRUE, kind |-> "primality",
                    sat |-> r.sat, isPrime |-> r.isPrime]
    /\ UNCHANGED <<bit_length, p, q, adv>>
    /\ UNCHANGED orchVars
    /\ UNCHANGED findVars

AssignModulusCheck ==
    /\ ~circ.done
    /\ \E i \in 1..NumChecks, strategy \in ModStrategies :
         LET modulus == F(primesTable[i])
             a == ModulusAssign(strategy, F(p), modulus)
             r == ModulusCheck(F(p), modulus, a.quotient, a.remainder, a.inv)
         IN  /\ adv' = [adv EXCEPT !.primeP = strategy]
             /\ circ' = [done |-> TRUE, kind |-> "modcheck",
                         modulus |-> primesTable[i],
                         quotient |-> a.quotient, remainder |-> a.remainder,
                         inv |-> a.inv,
                         sat |-> r.sat, isNotDivisible |-> r.isNotDivisible]
    /\ UNCHANGED <<bit_length, p, q>>
    /\ UNCHANGED orchVars
    /\ UNCHANGED findVars

InitPrimality ==
    /\ bit_length = DefaultBitLength
    /\ p \in 0..MaxCandidate \cup InputValues(DefaultBitLength)
    /\ q = 0
    /\ adv = NoAdv
    /\ circ = NoCirc
    /\ IdleOrch
    /\ IdleFind

NextPrimality == TestPrimality \/ AssignModulusCheck

SpecPrimality == InitPrimality /\ [][NextPrimality]_vars

\* C6 (as claimed): under the gadget's own witness computation,
\* SimplePrimalityTest outputs isPrime = 1 for every prime in [2, 65535]
\* (the primes 2..251 of the table included) and isPrime = 0 for every
\* composite that has a factor <= 251.
C6_PrimalityGadget ==
    circ.kind = "primality" =>
        /\ circ.sat
        /\ (Prime(p) /\ p <= 65535) => circ.isPrime = FOne
        /\ (p >= 2 /\ \E d \in 2..251 : d < p /\ p % d = 0)
              => circ.isPrime = FZero

\* C8: the ModulusCheck constraints do not force a canonical remainder.
\* For a value that is a multiple of the modulus, the assignment
\* quotient = value/modulus - 1, remainder = modulus (inv = 1/modulus)
\* satisfies value === quotient * modulus + remainder and the IsZero
\* constraints with isNotDivisible = 1, while the canonical assignment
\* (remainder = 0) satisfies them with isNotDivisible = 0: the output is
\* not determined by (value, modulus).
C8_NonCanonicalRemainder ==
    (circ.kind = "modcheck" /\ p > 0 /\ p % circ.modulus = 0) =>
        /\ (/\ circ.quotient = F(p \div circ.modulus - 1)
            /\ circ.remainder = F(circ.modulus)
            /\ circ.inv = <<1, circ.modulus>>)
              => (circ.sat /\ circ.isNotDivisible = FOne)
        /\ (circ.quotient = F(p \div circ.modulus) /\ circ.remainder = FZero)
              => (circ.sat /\ circ.isNotDivisible = FZero)

C8_Witness ==
    /\ circ.kind = "modcheck"
    /\ p = 32770 /\ circ.modulus = 5
    /\ circ.quotient = F(6553) /\ circ.remainder = F(5)
    /\ circ.sat /\ circ.isNotDivisible = FOne

----------------------------------------------------------------------------
(* The circuit against a prover who assigns the free signals as it likes.  *)
(* Every signal assigned with <== is determined by its constraint; the     *)
(* prover chooses p, q, the output n and the signals assigned with <--.    *)
(* For each of the eight groups of free signals the prover follows the     *)
(* hint or one of the deviations below, in at most MaxDeviations groups.   *)

\* the prover departs from the hints in at most this many signal groups
MaxDeviations == 2
\* p and q are taken within AdvSpan of the values where a comparator's
\* bit decomposition changes its top bit or stops fitting
AdvSpan == 1

\* assignments of the bits of a Num2Bits(nb) with input in:
\*   "hint"  out[i] = (in >> i) & 1
\*   "flip"  the hint with the top bit negated
\*   "fix"   the top bit negated and out[nb-2] moved by 2 the other way,
\*           which keeps the weighted sum of the hint
BitStrategies == {"hint", "flip", "fix"}

BitsAssign(strategy, nb, in) ==
    LET h == Num2BitsHint(nb, in)
        top == FSub(FOne, h[nb])
    IN  CASE strategy = "hint" -> h
          [] strategy = "flip" -> [h EXCEPT ![nb] = top]
          [] strategy = "fix" ->
                [h EXCEPT ![nb] = top,
                          ![nb - 1] = IF top = FOne THEN FSub(h[nb - 1], F(2))
                                      ELSE FAdd(h[nb - 1], F(2))]

Adversaries ==
    {a \in [n : {"hint", "off"},
            geP : BitStrategies, leP : BitStrategies,
            geQ : BitStrategies, leQ : BitStrategies,
            eq : {"hint", "zero"},
            primeP : ModStrategies, primeQ : ModStrategies] :
        Cardinality({c \in DOMAIN a : a[c] # "hint"}) <= MaxDeviations}

AdvWitness(a, min_value, max_value, pp, qq) ==
    [n |-> IF a.n = "hint" THEN WMul(pp[1], qq[1])
           ELSE WAdd(WMul(pp[1], qq[1]), 1),
     geP |-> BitsAssign(a.geP, CmpBits + 1,
                        GreaterEqThanIn(CmpBits, pp, F(min_value))),
     leP |-> BitsAssign(a.leP, CmpBits + 1,
                        LessEqThanIn(CmpBits, pp, F(max_value))),
     geQ |-> BitsAssign(a.geQ, CmpBits + 1,
                        GreaterEqThanIn(CmpBits, qq, F(min_value))),
     leQ |-> BitsAssign(a.leQ, CmpBits + 1,
                        LessEqThanIn(CmpBits, qq, F(max_value))),
     eq |-> IF a.eq = "hint" THEN IsEqualHint(pp, qq) ELSE FZero,
     primeP |-> [i \in 1..NumChecks |->
                    ModulusAssign(a.primeP, pp, F(primesTable[i]))],
     primeQ |-> [i \in 1..NumChecks |->
                    ModulusAssign(a.primeQ, qq, F(primesTable[i]))]]

AdvValues ==
    LET lo == MinValue(DefaultBitLength)
        hi == MaxValue(DefaultBitLength) + 1
        edges == {lo - Pow2(CmpBits), 0, lo, hi,
                  lo + Pow2(CmpBits), hi + Pow2(CmpBits)}
    IN  UNION {(e - AdvSpan)..(e + AdvSpan - 1) : e \in edges}
            \cup {32771, 32779}

\* one operand ranges over AdvValues, the other over a prime of the range,
\* a composite of the range and a value beyond it
AdvPartners ==
    {MinValue(DefaultBitLength), 32771, MaxValue(DefaultBitLength) + 1}

AssignWitness ==
    /\ ~circ.done
    /\ \E a \in Adversaries :
         /\ adv' = a
         /\ circ' = Evaluate(bit_length, p, q,
                             AdvWitness(a, MinValue(bit_length),
                                        MaxValue(bit_length), F(p), F(q)))
    /\ UNCHANGED <<bit_length, p, q>>
    /\ UNCHANGED orchVars
    /\ UNCHANGED findVars

InitAdversary ==
    /\ bit_length = DefaultBitLength
    /\ \E x \in AdvValues, y \in AdvPartners :
         \/ p = x /\ q = y
         \/ p = y /\ q = x
    /\ adv = NoAdv
    /\ circ = NoCirc
    /\ IdleOrch
    /\ IdleFind

NextAdversary == AssignWitness

SpecAdversary == InitAdversary /\ [][NextAdversary]_vars

\* C2: soundness of the range, inequality and product conditions. In
\* every assignment that satisfies all constraints of RSASetupVerifier
\* (bit length 16), produced by the hints or not, p and q lie in
\* [32768, 65535], p # q and n = p * q.
C2_Soundness ==
    (circ.kind = "circuit" /\ circ.sat) =>
        /\ InRange16(p) /\ InRange16(q)
        /\ p # q
        /\ ProductIs(circ.n, p, q)

\* a satisfying assignment that the hints do not produce: the composite
\* 32768 passes both primality gadgets' constraints
C2_Witness ==
    /\ circ.kind = "circuit" /\ circ.sat
    /\ adv.primeP = "shift"
    /\ p = 32768 /\ q = 32771

----------------------------------------------------------------------------
(* The orchestration: requests on one constructed verifier.  The process   *)
(* starts in the project root; build/ holds no request file yet.  The      *)
(* external tools are run with subprocess.run and no check of their exit   *)
(* status; a tool that fails writes nothing.                               *)

\* requests are made while fewer than MaxProofs proofs have been saved
MaxProofs == 2

\* p and q of the requests: a composite and two primes of the 16-bit
\* range and a prime above it
OrchInputs == {32770, 32771, 32779, 65537}

\* the proofs handed to verify_proof are proofs for these (p, q)
OrchProofs == {<<32771, 32779>>, <<32779, 32771>>}

\* the inputs for which the witness calculator of the verifier's circuit
\* (bit_length = 16) finds every constraint satisfied
WitnessComputable ==
    {in \in OrchInputs \X OrchInputs :
        Evaluate(DefaultBitLength, in[1], in[2],
                 RSASetupVerifierHint(MinValue(DefaultBitLength),
                                      MaxValue(DefaultBitLength),
                                      F(in[1]), F(in[2]))).sat}

\* node generate_witness.js rsa_verifier.wasm input.json witness.wtns, run
\* in build/: the witness calculator computes the signals from input.json
\* and writes witness.wtns unless a constraint fails or the tool fails
RunWitnessGenerator(files, ok) ==
    IF ok /\ files["input.json"] \in WitnessComputable
    THEN [files EXCEPT !["witness.wtns"] = files["input.json"]]
    ELSE files

\* snarkjs groth16 prove circuit_0000.zkey witness.wtns proof.json
\* public.json, run in build/: proves the witness it finds in witness.wtns
\* and writes its public signal n
RunProver(files, ok) ==
    LET w == files["witness.wtns"]
    IN  IF ok /\ w # NoFile
        THEN [files EXCEPT !["proof.json"] = w,
                           !["public.json"] = WMul(w[1], w[2])]
        ELSE files

\* ZKRSAVerifier.generate_proof(p, q)
GenerateProof(pp, qq, witnessOK, proverOK) ==
    LET msg == Validate(bit_length, pp, qq)
        call == [op |-> "generate_proof", p |-> pp, q |-> qq, msg |-> msg,
                 outcome |-> "ValueError", wroteInput |-> FALSE,
                 ranWitness |-> FALSE, ranProver |-> FALSE,
                 witnessOK |-> FALSE, proverOK |-> FALSE,
                 proof |-> NoFile, n |-> NoFile]
        ran == [call EXCEPT !.wroteInput = TRUE, !.ranWitness = TRUE,
                            !.ranProver = TRUE, !.witnessOK = witnessOK,
                            !.proverOK = proverOK]
    IN  /\ proofs < MaxProofs
        /\ IF msg # "ok"
           THEN \* raise ValueError(...)
                /\ last' = call
                /\ UNCHANGED <<cwd, build, proofs>>
           ELSE IF cwd # "root"
           THEN \* open("build/input.json", "w") finds no build/ in build/
                /\ last' = [call EXCEPT !.outcome = "FileNotFoundError"]
                /\ UNCHANGED <<cwd, build, proofs>>
           ELSE \* input.json written, os.chdir("build"), both tools run
                /\ build' = RunProver(
                              RunWitnessGenerator(
                                [build EXCEPT !["input.json"] = <<pp, qq>>],
                                witnessOK),
                              proverOK)
                /\ IF build'["proof.json"] = NoFile
                   THEN \* open("proof.json") raises before os.chdir("..")
                        /\ last' = [ran EXCEPT !.outcome = "FileNotFoundError"]
                        /\ cwd' = "build"
                        /\ UNCHANGED proofs
                   ELSE \* os.chdir(".."); the proof is saved and returned
                        /\ last' = [ran EXCEPT !.outcome = "return",
                                               !.proof = build'["proof.json"],
                                               !.n = build'["public.json"]]
                        /\ cwd' = "root"
                        /\ proofs' = proofs + 1
        /\ UNCHANGED circuitVars
        /\ UNCHANGED findVars

\* snarkjs groth16 verify verification_key.json public_to_verify.json
\* proof_to_verify.json prints "OK!" when the proof is one of the public
\* signal it is given
RunVerifier(files, ok) ==
    /\ ok
    /\ files["proof_to_verify.json"] # NoFile
    /\ files["public_to_verify.json"] =
          WMul(files["proof_to_verify.json"][1],
               files["proof_to_verify.json"][2])

\* ZKRSAVerifier.verify_proof(proof, n)
VerifyProof(proof, nn, verifierOK) ==
    LET written == [build EXCEPT !["proof_to_verify.json"] = proof,
                                 !["public_to_verify.json"] = nn]
    IN  /\ IF cwd # "root"
           THEN /\ last' = [op |-> "verify_proof",
                            outcome |-> "FileNotFoundError",
                            verified |-> FALSE]
                /\ UNCHANGED <<cwd, build>>
           ELSE /\ build' = written
                /\ cwd' = "root"
                /\ last' = [op |-> "verify_proof", outcome |-> "return",
                            verified |-> RunVerifier(written, verifierOK)]
        /\ UNCHANGED proofs
        /\ UNCHANGED circuitVars
        /\ UNCHANGED findVars

\* ZKRSAVerifier.compile_circuits
CompileCircuits(circomOK) ==
    /\ IF cwd # "root"
       THEN last' = [op |-> "compile_circuits",
                     outcome |-> "FileNotFoundError"]
       ELSE last' = [op |-> "compile_circuits",
                     outcome |-> IF circomOK THEN "return" ELSE "Exception"]
    /\ UNCHANGED <<cwd, build, proofs>>
    /\ UNCHANGED circuitVars
    /\ UNCHANGED findVars

\* ZKRSAVerifier.trusted_setup
TrustedSetup ==
    /\ IF cwd # "root"
       THEN last' = [op |-> "trusted_setup", outcome |-> "FileNotFoundError"]
       ELSE last' = [op |-> "trusted_setup", outcome |-> "return"]
    /\ UNCHANGED <<cwd, build, proofs>>
    /\ UNCHANGED circuitVars
    /\ UNCHANGED findVars

InitOrch ==
    /\ IdleCircuit
    /\ IdleOrch
    /\ IdleFind

NextOrch ==
    \/ \E pp \in OrchInputs, qq \in OrchInputs, wOK \in BOOLEAN,
          pOK \in BOOLEAN : GenerateProof(pp, qq, wOK, pOK)
    \/ \E proof \in OrchProofs, d \in {0, 1}, vOK \in BOOLEAN :
            VerifyProof(proof, WAdd(WMul(proof[1], proof[2]), d), vOK)
    \/ \E cOK \in BOOLEAN : CompileCircuits(cOK)
    \/ TrustedSetup

SpecOrch == InitOrch /\ [][NextOrch]_vars

InRange(bl, x) == MinValue(bl) <= x /\ x <= MaxValue(bl)

\* C3: input validation in generate_proof. For every (p, q) where p or q
\* is not prime, or p = q, or p or q lies outside [min_value, max_value],
\* generate_proof raises ValueError before build/input.json is written and
\* before any external tool is run, and the message names the first
\* violated condition in the order: primality of both, p # q, range of p,
\* range of q.
C3_InputValidation ==
    (/\ last.op = "generate_proof"
     /\ \/ ~Prime(last.p) \/ ~Prime(last.q)
        \/ last.p = last.q
        \/ ~InRange(bit_length, last.p) \/ ~InRange(bit_length, last.q))
    => /\ last.outcome = "ValueError"
       /\ ~last.wroteInput /\ ~last.ranWitness /\ ~last.ranProver
       /\ last.msg =
            IF ~Prime(last.p) \/ ~Prime(last.q)
              THEN "Both p and q must be prime"
            ELSE IF last.p = last.q THEN "p and q must be different"
            ELSE IF ~InRange(bit_length, last.p)
              THEN "p must be a bit_length-bit number"
            ELSE "q must be a bit_length-bit number"

C3_Witness ==
    /\ last.op = "generate_proof"
    /\ last.p = 32771 /\ last.q = 65537
    /\ last.outcome = "ValueError"
    /\ last.msg = "q must be a bit_length-bit number"
    /\ build["input.json"] = <<32771, 32779>>

\* C4 (as claimed): a failure of the external witness generator or of the
\* external prover is fatal to the request: a generate_proof call that
\* returns (proof, n) had both tools succeed and returns the proof and the
\* public output produced for its own (p, q), with n = p * q, never files
\* left in build/ by an earlier request.
C4_ToolFailureIsFatal ==
    (last.op = "generate_proof" /\ last.outcome = "return")
    => /\ last.witnessOK /\ last.proverOK
       /\ last.proof = <<last.p, last.q>>
       /\ ProductIs(last.n, last.p, last.q)

\* C10 (as claimed): no request leaves partial global state. After every
\* call of compile_circuits, trusted_setup, generate_proof or verify_proof,
\* whether it returns or raises, the process working directory is the one
\* it was at the start of the call.
C10_WorkingDirectoryRestored == [][cwd' = cwd]_vars

----------------------------------------------------------------------------
(* ZKRSAVerifier.find_16bit_primes(count) as a loop *)

\* find_16bit_primes is called with count in 0..MaxCount or the 10 of
\* run_demo
MaxCount == 2
DemoCount == 10

\* bit lengths of the verifiers find_16bit_primes is run on
FindBitLengths == {2, 3, 4, DefaultBitLength}

\* primes = []; n = self.min_value
FindStart ==
    /\ pc = "start"
    /\ primes' = <<>>
    /\ fp_n' = MinValue(bit_length)
    /\ pc' = "while"
    /\ UNCHANGED <<bit_length, p, q, adv, circ, count>>
    /\ UNCHANGED orchVars

\* one iteration of: while len(primes) < count and n <= self.max_value
FindLoop ==
    /\ pc = "while"
    /\ Len(primes) < count /\ fp_n <= MaxValue(bit_length)
    /\ primes' = IF IsPrimePy(fp_n) THEN Append(primes, fp_n) ELSE primes
    /\ fp_n' = fp_n + (IF fp_n > 2 THEN 2 ELSE 1)
    /\ UNCHANGED <<bit_length, p, q, adv, circ, count, pc>>
    /\ UNCHANGED orchVars

\* return primes
FindReturn ==
    /\ pc = "while"
    /\ ~(Len(primes) < count /\ fp_n <= MaxValue(bit_length))
    /\ pc' = "done"
    /\ UNCHANGED <<bit_length, p, q, adv, circ, primes, fp_n, count>>
    /\ UNCHANGED orchVars

InitFind ==
    /\ bit_length \in FindBitLengths
    /\ p = 0 /\ q = 0 /\ adv = NoAdv /\ circ = NoCirc
    /\ IdleOrch
    /\ primes = <<>> /\ fp_n = 0
    /\ count \in 0..MaxCount \cup {DemoCount}
    /\ pc = "start"

NextFind == FindStart \/ FindLoop \/ FindReturn

SpecFind == InitFind /\ [][NextFind]_vars

\* C9 (as claimed): find_16bit_primes(count) returns, in ascending order,
\* the count smallest primes of [min_value, max_value] (all of them when
\* fewer exist); for bit_length 16 and count >= 2 the list begins
\* 32771, 32779.
C9_FindPrimes ==
    pc = "done" =>
        LET len == Len(primes)
            upto == IF count = 0 THEN MinValue(bit_length) - 1
                    ELSE IF len = count THEN primes[len]
                    ELSE MaxValue(bit_length)
        IN  /\ len <= count
            /\ \A i \in 1..len : Prime(primes[i]) /\ InRange(bit_length, primes[i])
            /\ \A i \in 1..(len - 1) : primes[i] < primes[i + 1]
            /\ \A x \in MinValue(bit_length)..upto :
                  Prime(x) => \E i \in 1..len : primes[i] = x
            /\ (bit_length = DefaultBitLength /\ count >= 2)
                  => (len >= 2 /\ primes[1] = 32771 /\ primes[2] = 32779)

====
